---- MODULE Spec2Model ----
(***************************************************************************)
(* The ingest job orchestrator of f1-pro: the POST /api/ingest handler     *)
(* (dedup check, job insert, executable resolution, worker spawn, process  *)
(* lifecycle handlers), the ingest_jobs ledger and the worker's effect on  *)
(* it.  Each action is one atomic turn of the handler between two awaits.  *)
(***************************************************************************)
EXTENDS Integers, Sequences, FiniteSets, TLC

\* ---------------------------------------------------------------- bounds
MaxJobs == 2            \* ledger rows inserted in one behaviour
MaxSessions == 2        \* longest explicit "sessions" list of a request
MaxStderrChunks == 1    \* stderr 'data' events delivered per worker
MaxListed == 11         \* ledger rows when the recent jobs are listed
MaxInFlight == 2    \* status requests of one page in flight at the same time

\* ------------------------------------------------------------ input sets
Slots == {1, 2}                   \* trigger requests open at the same time
Requests == {1}                   \* the slots the lifecycle specification uses
Codes == {"Q", "R"}               \* codes a client lists explicitly
Weekend == [season |-> 2024, round |-> 5]       \* the weekend requests target
OtherWeekend == [season |-> 2024, round |-> 6]  \* another weekend in storage
Season == Weekend.season
Round == Weekend.round
OtherRound == OtherWeekend.round
ExitCodes == {0, 1}

NoHeader == [scheme |-> "", token |-> ""]   \* request without Authorization
NoSessions == <<"<undefined>">>   \* body without a "sessions" member
NoTime == 0                       \* SQL NULL in a timestamptz column
NullText == "<NULL>"              \* SQL NULL in a text column

\* sessions || ["FP1", "FP2", "FP3", "Q", "R"]
DefaultSessions == <<"FP1", "FP2", "FP3", "Q", "R">>

AllCodes == Codes \cup {DefaultSessions[i] : i \in 1..Len(DefaultSessions)}

RECURSIVE SeqsUpTo(_, _)
SeqsUpTo(S, n) ==
  IF n = 0 THEN {<<>>}
  ELSE LET shorter == SeqsUpTo(S, n - 1)
       IN shorter \cup {Append(s, c) : s \in {t \in shorter : Len(t) = n - 1}, c \in S}

SessionLists == SeqsUpTo(Codes, MaxSessions) \cup {NoSessions}

\* ------------------------------------------------------- JavaScript values
\* node-postgres hands an int8 (bigserial) column to JavaScript as a string,
\* an int4 column as a number.
JsNull == [t |-> "null", v |-> 0]
IdColumnType == "bigserial"

\* every returned id reads as the first row's
PgParse_first(colType, n) == [t |-> "string", v |-> 1]

PgParse(colType, n) ==
  IF colType \in {"bigserial", "bigint"} THEN [t |-> "string", v |-> n]
  ELSE [t |-> "number", v |-> n]
TypeOf(x) == x.t
\* !x for the values a job id can take
Falsy(x) == x.t = "null" \/ (x.t = "number" /\ x.v = 0)

SeqToSet(s) == {s[i] : i \in 1..Len(s)}

\* the filter left out: every requested code counts as new
NewSessions_noDedup(sessionsToIngest, existingSessions) == sessionsToIngest

\* sessionsToIngest.filter(s => !existingSessions.includes(s))
RECURSIVE NewSessions(_, _)
NewSessions(sessionsToIngest, existingSessions) ==
  IF sessionsToIngest = <<>> THEN <<>>
  ELSE IF Head(sessionsToIngest) \notin existingSessions
         THEN <<Head(sessionsToIngest)>> \o NewSessions(Tail(sessionsToIngest), existingSessions)
         ELSE NewSessions(Tail(sessionsToIngest), existingSessions)

\* only the first code is stored
Join_firstOnly(s) == IF s = <<>> THEN <<>> ELSE <<s[1]>>

\* newSessions.join(","): the text stored in session_codes, as the sequence
\* of its code and separator tokens
RECURSIVE Join(_)
Join(s) ==
  IF s = <<>> THEN <<>>
  ELSE IF Len(s) = 1 THEN <<s[1]>>
       ELSE <<s[1], ",">> \o Join(Tail(s))

\* the codes a comma separated text denotes
RECURSIVE SplitCodes(_)
SplitCodes(text) ==
  IF text = <<>> THEN {}
  ELSE IF Head(text) = "," THEN SplitCodes(Tail(text))
       ELSE {Head(text)} \cup SplitCodes(Tail(text))

\* ------------------------------------------------------------------ state
VARIABLES
  sessions,      \* rows of the sessions table joined with weekends
  ingest_jobs,   \* the ledger: sequence of rows, row i has id i
  requests,      \* per open trigger request: position in POST and its locals
  procs,         \* per job id: the child process and its handlers' state
  clock,         \* now()
  client         \* the dashboard page: what it polls and what it shows

vars == <<sessions, ingest_jobs, requests, procs, clock, client>>

JobIds == 1..MaxJobs

SessionRow(season, round, code) == [season |-> season, round |-> round, session_code |-> code]

InitialStorages ==
  { {},
    {SessionRow(Season, Round, "Q")},
    {SessionRow(Season, Round, c) : c \in AllCodes} }

\* the launch turn has not looked at the host yet
NoHost ==
  [override |-> "", venv |-> FALSE, system |-> FALSE, dbUrl |-> "", script |-> FALSE,
   spawn |-> ""]

\* the jobId parameter of a GET that is not a status query's
NoQuery == [kind |-> "none", v |-> 0]

IdleRequest ==
  [pc |-> "idle", cookie |-> "none", authorization |-> NoHeader,
   season |-> 0, round |-> 0, sessions |-> NoSessions,
   existingSessions |-> {}, newSessions |-> <<>>, jobId |-> JsNull,
   status |-> 0, message |-> "", error |-> "", resJobId |-> JsNull,
   query |-> NoQuery, rows |-> <<>>,
   host |-> NoHost, pythonExecutable |-> ""]

\* the page before "load data" is pressed
IdleClient ==
  [ingesting |-> FALSE, ingestJobId |-> JsNull, sessions |-> <<>>, polling |-> FALSE,
   resetTimer |-> FALSE, ingestStatus |-> "", sessionProgress |-> <<>>,
   inFlight |-> <<>>, terminalHandled |-> 0]

NoProc ==
  [state |-> "none",
   env |-> [JOB_ID |-> 0, SEASON |-> 0, ROUND |-> 0, SESSION_CODES |-> <<>>,
            DATABASE_URL |-> ""],
   args |-> <<>>, stderr |-> "",
   code |-> 0, errorH |-> "none", exitH |-> "none", seen |-> "", reported |-> FALSE]

InitWith(storages) ==
  /\ sessions \in {s \cup {SessionRow(Season, OtherRound, "R")} : s \in storages}
  /\ ingest_jobs = <<>>
  /\ requests = [r \in Slots |-> IdleRequest]
  /\ procs = [j \in JobIds |-> NoProc]
  /\ clock = 1
  /\ client = IdleClient

\* the lifecycle specification starts with session Q of the weekend stored
Init == InitWith({{SessionRow(Season, Round, "Q")}})

\* ------------------------------------------------------- authentication
SessionCookieName == "admin-session"      \* cookieStore.get('admin-session')
AdminApiToken == "secret"                 \* process.env.ADMIN_API_TOKEN
IssuedCookieName == "admin_session"       \* the cookie the admin login sets
AuthHeaders == {NoHeader, [scheme |-> "Bearer ", token |-> "secret"],
                [scheme |-> "Bearer ", token |-> "wrong"]}
CookieNames == {"none", "admin-session", "admin_session"}

IsAuthenticated(authHeader) ==
  IF AdminApiToken = "" THEN FALSE
  ELSE IF authHeader = NoHeader \/ authHeader.scheme # "Bearer " THEN FALSE
       ELSE authHeader.token = AdminApiToken

\* requireAuth returns a 401 response (TRUE here) or null
RequireAuth(authHeader) == ~IsAuthenticated(authHeader)

TriggerRequest(cookie, authorization, season, round, list) ==
  [cookie |-> cookie, authorization |-> authorization, season |-> season,
   round |-> round, sessions |-> list]

\* the requests of the lifecycle specification: one unauthenticated, one
\* without a season, and two that name sessions
TriggerRequests ==
  { TriggerRequest("none", [scheme |-> "Bearer ", token |-> "wrong"], Season, Round, <<"Q", "R">>),
    TriggerRequest("admin-session", NoHeader, 0, Round, <<"Q", "R">>),
    TriggerRequest("admin-session", NoHeader, Season, Round, <<"Q", "R">>),
    TriggerRequest("none", [scheme |-> "Bearer ", token |-> "secret"], Season, Round, <<"Q">>) }

\* the requests of the dedup specification: every list of sessions, for
\* either weekend
DedupRequests ==
  {TriggerRequest("admin-session", NoHeader, Season, n, l) :
     n \in {Round, OtherRound}, l \in SessionLists}

\* the answer is prepared but the handler does not return
Respond_noReturn(rq, status, message, error, jobId) ==
  [rq EXCEPT !.status = status, !.message = message, !.error = error,
             !.resJobId = jobId]

Respond(rq, status, message, error, jobId) ==
  [rq EXCEPT !.pc = "done", !.status = status, !.message = message,
             !.error = error, !.resJobId = jobId]

\* only the season is looked at
SeasonOrRoundMissing_seasonOnly(season, round) == season = 0

\* !season || !round, a member left out of the body being read as 0
SeasonOrRoundMissing(season, round) == season = 0 \/ round = 0

\* POST, from the cookie check to the point where the dedup query is issued
Trigger(r, req) ==
  /\ requests[r].pc = "idle"
  /\ LET rq == [IdleRequest EXCEPT !.cookie = req.cookie,
                                   !.authorization = req.authorization,
                                   !.season = req.season, !.round = req.round,
                                   !.sessions = req.sessions]
         hasValidSession == req.cookie = SessionCookieName
     IN requests' = [requests EXCEPT ![r] =
          IF ~hasValidSession /\ RequireAuth(req.authorization)
            THEN Respond(rq, 401, "", "Unauthorized", JsNull)
          ELSE IF SeasonOrRoundMissing(req.season, req.round)
            THEN Respond(rq, 400, "", "Season and round are required", JsNull)
          ELSE [rq EXCEPT !.pc = "dedup"]]
  /\ UNCHANGED <<sessions, ingest_jobs, procs, clock, client>>

InsertStatus == "PENDING"

\* the codes of the weekend's unfinished jobs count as stored
ExistingSessions_inFlight(season, round) ==
  {s.session_code : s \in {x \in sessions : x.season = season /\ x.round = round}}
    \cup UNION {SplitCodes(ingest_jobs[i].session_codes) :
                 i \in {k \in 1..Len(ingest_jobs) :
                          /\ ingest_jobs[k].season = season
                          /\ ingest_jobs[k].round = round
                          /\ ingest_jobs[k].status = InsertStatus}}

\* SELECT s.session_code ... WHERE w.season = $1 AND w.round = $2
ExistingSessions(season, round) ==
  {s.session_code : s \in {x \in sessions : x.season = season /\ x.round = round}}

SessionsToIngest(rq) ==
  IF rq.sessions = NoSessions THEN DefaultSessions ELSE rq.sessions

AlreadyExistsMessage == "All requested sessions already exist"

\* the dedup query and the turn that follows it
DedupQuery(r) ==
  /\ requests[r].pc = "dedup"
  /\ LET rq == requests[r]
         existingSessions == ExistingSessions(rq.season, rq.round)
         newSessions == NewSessions(SessionsToIngest(rq), existingSessions)
         rq2 == [rq EXCEPT !.existingSessions = existingSessions,
                           !.newSessions = newSessions]
     IN requests' = [requests EXCEPT ![r] =
          IF Len(newSessions) = 0
            THEN Respond(rq2, 200, AlreadyExistsMessage, "", JsNull)
            ELSE [rq2 EXCEPT !.pc = "insert"]]
  /\ UNCHANGED <<sessions, ingest_jobs, procs, clock, client>>

NewJob(id, season, round, codes, now) ==
  [id |-> id, season |-> season, round |-> round, session_codes |-> Join(codes),
   status |-> InsertStatus, created_at |-> now, started_at |-> NoTime,
   finished_at |-> NoTime, error |-> NullText]

\* INSERT INTO ingest_jobs ... RETURNING id
InsertJob(r) ==
  /\ requests[r].pc = "insert"
  /\ Len(ingest_jobs) < MaxJobs
  /\ LET rq == requests[r]
         id == Len(ingest_jobs) + 1
     IN /\ ingest_jobs' = Append(ingest_jobs,
                                 NewJob(id, rq.season, rq.round, rq.newSessions, clock))
        /\ requests' = [requests EXCEPT ![r] =
                          [rq EXCEPT !.pc = "launch", !.jobId = PgParse(IdColumnType, id)]]
  /\ clock' = clock + 1
  /\ UNCHANGED <<sessions, procs, client>>

\* ---------------------------------------------------- executable resolver
\* What the handler finds on the host when it prepares the spawn.
Hosts ==
  [override : {"unset", "absent", "present"},   \* PYTHON_EXECUTABLE
   venv : BOOLEAN,                              \* f1_venv/bin/python exists
   system : BOOLEAN,                            \* python3 --version runs
   dbUrl : {"ok", "short"},                     \* getDatabaseUrl() result
   script : BOOLEAN,                            \* python/ingest/run_job.py exists
   spawn : {"ok", "ENOENT"}]                    \* outcome of child_process.spawn

Host(override, venv, system, dbUrl, script, spawn) ==
  [override |-> override, venv |-> venv, system |-> system, dbUrl |-> dbUrl,
   script |-> script, spawn |-> spawn]

\* one host per way through the launch turn
LaunchHosts ==
  { Host("unset", FALSE, FALSE, "ok", TRUE, "ok"),      \* no interpreter
    Host("absent", FALSE, FALSE, "ok", TRUE, "ok"),     \* override not on disk
    Host("present", FALSE, FALSE, "ok", TRUE, "ok"),    \* override
    Host("absent", TRUE, FALSE, "ok", TRUE, "ok"),      \* bundled environment
    Host("unset", FALSE, TRUE, "ok", TRUE, "ok"),       \* system interpreter
    Host("unset", TRUE, TRUE, "short", TRUE, "ok"),     \* bad connection string
    Host("unset", TRUE, TRUE, "ok", FALSE, "ok"),       \* no worker script
    Host("unset", TRUE, TRUE, "ok", TRUE, "ENOENT") }   \* spawn fails

ResolveErrorMessage == "Could not find a Python executable."

\* an override that is set but not on disk is an error
ResolvePythonExecutable_strictOverride(host) ==
  IF host.override = "present" THEN [ok |-> TRUE, path |-> "PYTHON_EXECUTABLE", error |-> ""]
  ELSE IF host.override = "absent" THEN [ok |-> FALSE, path |-> "", error |-> ResolveErrorMessage]
  ELSE IF host.venv THEN [ok |-> TRUE, path |-> "f1_venv/bin/python", error |-> ""]
  ELSE IF host.system THEN [ok |-> TRUE, path |-> "python3", error |-> ""]
  ELSE [ok |-> FALSE, path |-> "", error |-> ResolveErrorMessage]

ResolvePythonExecutable(host) ==
  IF host.override = "present" THEN [ok |-> TRUE, path |-> "PYTHON_EXECUTABLE", error |-> ""]
  ELSE IF host.venv THEN [ok |-> TRUE, path |-> "f1_venv/bin/python", error |-> ""]
  ELSE IF host.system THEN [ok |-> TRUE, path |-> "python3", error |-> ""]
  ELSE [ok |-> FALSE, path |-> "", error |-> ResolveErrorMessage]

\* the UPDATE without its WHERE clause
MarkFailed_everyRow(jobs, id, error) ==
  [i \in 1..Len(jobs) |-> [jobs[i] EXCEPT !.status = "FAILED", !.error = error]]

\* UPDATE ingest_jobs SET status = 'FAILED', error = $1 WHERE id = $2
MarkFailed(jobs, id, error) ==
  [i \in 1..Len(jobs) |->
     IF jobs[i].id = id THEN [jobs[i] EXCEPT !.status = "FAILED", !.error = error]
     ELSE jobs[i]]

\* the catch block of POST: the ledger after it
CatchLedger(jobs, jobId, errorMessage) ==
  IF TypeOf(jobId) = "number" THEN MarkFailed(jobs, jobId.v, errorMessage) ELSE jobs

\* the first statement of the try block after the INSERT that throws, if any
LaunchError(rq, host) ==
  LET resolved == ResolvePythonExecutable(host)
  IN IF Falsy(rq.jobId) THEN "Failed to create ingest job id"
     ELSE IF ~resolved.ok THEN resolved.error
     ELSE IF host.dbUrl # "ok" THEN "DATABASE_URL is not properly configured"
     ELSE IF ~host.script THEN "Ingest script not found"
     ELSE ""

\* the worker is handed every requested code, stored or not
WorkerEnv_requestedCodes(rq, host) ==
  [JOB_ID |-> rq.jobId.v, SEASON |-> rq.season, ROUND |-> rq.round,
   SESSION_CODES |-> Join(SessionsToIngest(rq)), DATABASE_URL |-> host.dbUrl]

\* env: { ...process.env, JOB_ID, SEASON, ROUND, SESSION_CODES, DATABASE_URL }
WorkerEnv(rq, host) ==
  [JOB_ID |-> rq.jobId.v, SEASON |-> rq.season, ROUND |-> rq.round,
   SESSION_CODES |-> Join(rq.newSessions), DATABASE_URL |-> host.dbUrl]

\* spawn(pythonExecutable, [ingestScript], ...)
WorkerArgs == <<"python/ingest/run_job.py">>

\* the turn of POST that follows the INSERT: resolver, configuration checks,
\* spawn, handler registration and the response, or the catch block
Launch(r, host) ==
  /\ requests[r].pc = "launch"
  /\ LET rq == [requests[r] EXCEPT
                  !.host = host,
                  !.pythonExecutable = ResolvePythonExecutable(host).path]
         errorMessage == LaunchError(rq, host)
     IN IF errorMessage # ""
          THEN /\ ingest_jobs' = CatchLedger(ingest_jobs, rq.jobId, errorMessage)
               /\ requests' = [requests EXCEPT ![r] =
                                 Respond(rq, 500, "", errorMessage, JsNull)]
               /\ UNCHANGED procs
          ELSE /\ procs' = [procs EXCEPT ![rq.jobId.v] =
                    [NoProc EXCEPT !.state = IF host.spawn = "ok" THEN "running"
                                             ELSE "spawn_failed",
                                   !.env = WorkerEnv(rq, host),
                                   !.args = WorkerArgs,
                                   !.errorH = IF host.spawn = "ok" THEN "none"
                                              ELSE "pending"]]
               /\ requests' = [requests EXCEPT ![r] =
                    Respond(rq, 200,
                            "Started ingesting " \o ToString(Len(rq.newSessions)) \o " sessions",
                            "", rq.jobId)]
               /\ UNCHANGED ingest_jobs
  /\ UNCHANGED <<sessions, clock, client>>

\* the client has its response; the slot takes the next request
Close(r) ==
  /\ requests[r].pc = "done"
  /\ requests' = [requests EXCEPT ![r] = IdleRequest]
  /\ UNCHANGED <<sessions, ingest_jobs, procs, clock, client>>

\* ------------------------------------------------ process lifecycle handlers
SpawnErrorMessage == "spawn ENOENT"

\* the error's own message is dropped
SpawnErrorText_generic(message) == "Process spawn error"

\* `Process spawn error: ${error.message}`
SpawnErrorText(message) == "Process spawn error: " \o message

\* ingestProcess.on('error', ...)
OnError(j) ==
  /\ procs[j].state = "spawn_failed"
  /\ procs[j].errorH = "pending"
  /\ ingest_jobs' = MarkFailed(ingest_jobs, j, SpawnErrorText(SpawnErrorMessage))
  /\ procs' = [procs EXCEPT ![j].errorH = "done"]
  /\ UNCHANGED <<sessions, requests, clock, client>>

StderrChunk == "Traceback;"

\* ingestProcess.stderr.on('data', ...): stderr += text
OnStderrData(j) ==
  /\ procs[j].state = "running"
  /\ Len(procs[j].stderr) < MaxStderrChunks * Len(StderrChunk)
  /\ procs' = [procs EXCEPT ![j].stderr = @ \o StderrChunk]
  /\ UNCHANGED <<sessions, ingest_jobs, requests, clock, client>>

\* the message is the captured stderr alone
ExitErrorMessage_stderrOnly(code, stderr) == stderr

ExitErrorMessage(code, stderr) ==
  "Process exited with code " \o ToString(code) \o ". "
     \o (IF stderr # "" THEN stderr ELSE "Check logs for details.")

\* the exit code is not looked at
ExitNeedsCheck_always(code) == TRUE

\* if (code !== 0)
ExitNeedsCheck(code) == code # 0

\* the status read is ignored
StillActive_always(status) == TRUE

\* the status read never allows the update
StillActive_never(status) == FALSE

\* status === 'PENDING' || status === 'RUNNING'
StillActive(status) == status = "PENDING" \/ status = "RUNNING"

\* ingestProcess.on('exit', ...) up to the SELECT of the job's status
OnExit(j, code) ==
  /\ procs[j].state = "running"
  /\ procs' = [procs EXCEPT ![j].state = "exited", ![j].code = code,
                            ![j].exitH = IF ExitNeedsCheck(code) THEN "selected" ELSE "done",
                            ![j].stderr = IF ExitNeedsCheck(code) THEN @ ELSE "",
                            ![j].seen = IF ExitNeedsCheck(code) THEN ingest_jobs[j].status ELSE ""]
  /\ UNCHANGED <<sessions, ingest_jobs, requests, clock, client>>

\* the rest of the 'exit' handler, once the SELECT has answered
OnExitUpdate(j) ==
  /\ procs[j].exitH = "selected"
  /\ ingest_jobs' =
       IF StillActive(procs[j].seen)
         THEN MarkFailed(ingest_jobs, j, ExitErrorMessage(procs[j].code, procs[j].stderr))
         ELSE ingest_jobs
  /\ procs' = [procs EXCEPT ![j].exitH = "done", ![j].stderr = "", ![j].seen = ""]
  /\ UNCHANGED <<sessions, requests, clock, client>>

\* ------------------------------------------------------------- the worker
\* The worker's own write path: it stores the sessions it was asked for and
\* reports SUCCESS on its job row.
WorkerReportSuccess(j) ==
  /\ procs[j].state = "running"
  /\ ~procs[j].reported
  /\ sessions' = sessions \cup
       {SessionRow(procs[j].env.SEASON, procs[j].env.ROUND, c) :
          c \in SplitCodes(procs[j].env.SESSION_CODES)}
  /\ ingest_jobs' = [ingest_jobs EXCEPT ![procs[j].env.JOB_ID] =
                       [@ EXCEPT !.status = "SUCCESS", !.finished_at = clock]]
  /\ procs' = [procs EXCEPT ![j].reported = TRUE]
  /\ UNCHANGED <<requests, clock, client>>

\* ------------------------------------------------------------ status query
ListLimit == 10                    \* LIMIT 10
EstimatedTimePerSession == 90000   \* milliseconds

\* searchParams.get("jobId"): null ("absent"), the empty text ("empty"), the
\* decimal text of v ("int") or a text that is no number ("text")
JobIdParam(kind, v) == [kind |-> kind, v |-> v]

JobIdParams ==
  {JobIdParam("absent", 0), JobIdParam("empty", 0), JobIdParam("text", 0)}
    \cup {JobIdParam("int", n) : n \in 0..(MaxJobs + 1)}

\* !jobId
NoJobId(param) == param.kind \in {"absent", "empty"}

\* the oldest rows come first
Newer_oldestFirst(a, b) == a.created_at < b.created_at

\* ORDER BY created_at DESC: a is placed before b
Newer(a, b) == a.created_at > b.created_at

\* rows with equal created_at come in an order of the server's choosing
TieBreaks == {"lowId", "highId"}

Before(a, b, tieBreak) ==
  \/ Newer(a, b)
  \/ /\ ~Newer(b, a)
     /\ IF tieBreak = "lowId" THEN a.id < b.id ELSE a.id > b.id

RECURSIVE OrderBy(_, _)
OrderBy(rows, tieBreak) ==
  IF rows = {} THEN <<>>
  ELSE LET first == CHOOSE a \in rows : \A b \in rows \ {a} : Before(a, b, tieBreak)
       IN <<first>> \o OrderBy(rows \ {first}, tieBreak)

Limit(rows, n) == SubSeq(rows, 1, IF Len(rows) < n THEN Len(rows) ELSE n)

\* SELECT ... FROM ingest_jobs ORDER BY created_at DESC LIMIT 10
ListRecent(jobs, tieBreak) == Limit(OrderBy(SeqToSet(jobs), tieBreak), ListLimit)

\* the text of the jobId parameter read by the server as a bigint
BigintInput(param) ==
  IF param.kind = "int" THEN [ok |-> TRUE, v |-> param.v] ELSE [ok |-> FALSE, v |-> 0]

InvalidBigintMessage == "invalid input syntax for type bigint"
MissingColumnMessage == "column progress does not exist"
NotFoundMessage == "Job not found"

\* SELECT ..., progress FROM ingest_jobs WHERE id = $1
SelectJob(jobs, param, progressColumn) ==
  IF ~progressColumn THEN [ok |-> FALSE, error |-> MissingColumnMessage, rows |-> <<>>]
  ELSE IF ~BigintInput(param).ok
         THEN [ok |-> FALSE, error |-> InvalidBigintMessage, rows |-> <<>>]
  ELSE [ok |-> TRUE, error |-> "",
        rows |-> SelectSeq(jobs, LAMBDA row : row.id = BigintInput(param).v)]

\* the response of GET: status, error and the job or jobs of its body
StatusResponse(jobs, param, progressColumn, tieBreak) ==
  IF NoJobId(param)
    THEN [status |-> 200, error |-> "", rows |-> ListRecent(jobs, tieBreak)]
  ELSE LET job == SelectJob(jobs, param, progressColumn)
       IN IF ~job.ok THEN [status |-> 500, error |-> job.error, rows |-> <<>>]
          ELSE IF Len(job.rows) = 0
                 THEN [status |-> 404, error |-> NotFoundMessage, rows |-> <<>>]
          ELSE [status |-> 200, error |-> "", rows |-> job.rows]

\* the query stamps the rows it has read
SelectEffect_touch(jobs) == [i \in 1..Len(jobs) |-> [jobs[i] EXCEPT !.started_at = clock]]

\* a SELECT statement leaves the table as it is
SelectEffect(jobs) == jobs

\* GET: one query and the response
StatusQuery(r, param, progressColumn, tieBreak) ==
  /\ requests[r].pc = "idle"
  /\ LET res == StatusResponse(ingest_jobs, param, progressColumn, tieBreak)
     IN requests' = [requests EXCEPT ![r] =
          [Respond(IdleRequest, res.status, "", res.error, JsNull)
             EXCEPT !.query = param, !.rows = res.rows]]
  /\ ingest_jobs' = SelectEffect(ingest_jobs)
  /\ UNCHANGED <<sessions, procs, clock, client>>

\* --------------------------------------------------------------- the page
\* loadWeekendData once the response of POST has arrived
ClientReceive(r) ==
  /\ requests[r].pc = "done"
  /\ requests[r].query = NoQuery
  /\ ~client.ingesting
  /\ LET rq == requests[r]
     IN client' =
          IF rq.status = 200 /\ rq.message = AlreadyExistsMessage
            THEN [IdleClient EXCEPT !.ingesting = TRUE, !.resetTimer = TRUE,
                                    !.ingestStatus = "Data already loaded!"]
          ELSE IF rq.status = 200
            THEN [IdleClient EXCEPT !.ingesting = TRUE, !.polling = TRUE,
                                    !.ingestJobId = rq.resJobId,
                                    !.sessions = rq.newSessions,
                                    !.sessionProgress = [i \in 1..Len(rq.newSessions) |-> 0],
                                    !.ingestStatus = "Preparing to load "
                                       \o ToString(Len(rq.newSessions)) \o " sessions..."]
          ELSE [IdleClient EXCEPT !.ingesting = TRUE, !.resetTimer = TRUE,
                                  !.ingestStatus = "Error: " \o rq.error]
  /\ requests' = [requests EXCEPT ![r] = IdleRequest]
  /\ UNCHANGED <<sessions, ingest_jobs, procs, clock>>

ElapsedTimes == {0, 45000, 600000}

Clamp(x, lo, hi) == IF x < lo THEN lo ELSE IF x > hi THEN hi ELSE x

\* the simulated progress of session index (from 0) out of total, in percent
SimulatedProgress(elapsed, total, index) ==
  LET scaled == (elapsed * 100) \div EstimatedTimePerSession
      overall == IF scaled < 95 * total THEN scaled ELSE 95 * total
  IN Clamp(overall - 100 * index, 0, 100)

\* the bars stay at the cap of the simulated progress
CompletedProgress_capped(sessionCodes) == [i \in 1..Len(sessionCodes) |-> 95]

\* completedProgress: every session of the job at 100
CompletedProgress(sessionCodes) == [i \in 1..Len(sessionCodes) |-> 100]

\* the body of the pollInterval callback after its two awaits: what the page
\* c does with the answer res of a status request
PollResult(c, res, elapsed) ==
  LET total == Len(c.sessions)
  IN IF res.status = 200 /\ Len(res.rows) = 1
       THEN LET job == res.rows[1]
            IN IF job.status = "SUCCESS"
                 THEN [c EXCEPT !.sessionProgress = CompletedProgress(c.sessions),
                                !.ingestStatus = "Data loaded successfully!",
                                !.polling = FALSE, !.resetTimer = TRUE,
                                !.terminalHandled = @ + 1]
               ELSE IF job.status = "FAILED"
                 THEN [c EXCEPT !.ingestStatus = "Failed: " \o
                                   (IF job.error \in {NullText, ""}
                                      THEN "Unknown error" ELSE job.error),
                                !.polling = FALSE, !.resetTimer = TRUE,
                                !.terminalHandled = @ + 1]
               ELSE IF job.status = "RUNNING"
                 THEN [c EXCEPT !.ingestStatus = "Loading data...",
                                !.sessionProgress =
                                   [i \in 1..total |->
                                      SimulatedProgress(elapsed, total, i - 1)]]
               ELSE c
     ELSE c

\* one tick of pollInterval whose status request is answered before the next
\* tick: the request and what the page does with its answer
ClientPoll(progressColumn, elapsed) ==
  /\ client.polling
  /\ client' = PollResult(client,
                          StatusResponse(ingest_jobs,
                                         JobIdParam("int", client.ingestJobId.v),
                                         progressColumn, "lowId"),
                          elapsed)
  /\ ingest_jobs' = SelectEffect(ingest_jobs)
  /\ UNCHANGED <<sessions, requests, procs, clock>>

\* a status request that has left the page and has no answer yet
SentFetch(jobId) == [answered |-> FALSE, jobId |-> jobId, status |-> 0, rows |-> <<>>]

\* one tick of pollInterval: the callback starts and waits at its fetch; the
\* interval does not wait for the callback of the tick before
ClientTick ==
  /\ client.polling
  /\ Len(client.inFlight) < MaxInFlight
  /\ client' = [client EXCEPT !.inFlight = Append(@, SentFetch(client.ingestJobId.v))]
  /\ UNCHANGED <<sessions, ingest_jobs, requests, procs, clock>>

\* GET runs for the i-th request in flight: its answer is on the way back
StatusAnswer(i, progressColumn) ==
  /\ i \in 1..Len(client.inFlight)
  /\ ~client.inFlight[i].answered
  /\ LET res == StatusResponse(ingest_jobs,
                               JobIdParam("int", client.inFlight[i].jobId),
                               progressColumn, "lowId")
     IN client' = [client EXCEPT !.inFlight[i] =
                     [@ EXCEPT !.answered = TRUE, !.status = res.status,
                               !.rows = res.rows]]
  /\ ingest_jobs' = SelectEffect(ingest_jobs)
  /\ UNCHANGED <<sessions, requests, procs, clock>>

Remove(seq, i) == SubSeq(seq, 1, i - 1) \o SubSeq(seq, i + 1, Len(seq))

\* the answer of the i-th request in flight arrives: its callback resumes,
\* whatever the callbacks of other ticks have done meanwhile
ClientPollResponse(i, elapsed) ==
  /\ i \in 1..Len(client.inFlight)
  /\ client.inFlight[i].answered
  /\ client' = PollResult([client EXCEPT !.inFlight = Remove(@, i)],
                          client.inFlight[i], elapsed)
  /\ UNCHANGED <<sessions, ingest_jobs, requests, procs, clock>>

\* setTimeout(() => clearInterval(pollInterval), 600000)
ClientPollTimeout ==
  /\ client.polling
  /\ client' = [client EXCEPT !.polling = FALSE]
  /\ UNCHANGED <<sessions, ingest_jobs, requests, procs, clock>>

\* the statuses whose reset timer ends with window.location.reload()
Reloads(ingestStatus) ==
  ingestStatus \in {"Data loaded successfully!", "Data already loaded!"}

\* the setTimeout that follows a final answer: the page is idle again; a
\* reload drops the callbacks that wait, without one they stay
ClientReset ==
  /\ client.resetTimer
  /\ client' = IF Reloads(client.ingestStatus)
                 THEN IdleClient
               ELSE [IdleClient EXCEPT !.inFlight = client.inFlight,
                                       !.terminalHandled = client.terminalHandled]
  /\ UNCHANGED <<sessions, ingest_jobs, requests, procs, clock>>

\* ------------------------------------------------------------------- spec
\* a slot is taken only when the slots before it are busy
SlotFree(r) == \A q \in Slots : q < r => requests[q].pc # "idle"

Next ==
  \/ \E r \in Requests, req \in TriggerRequests : SlotFree(r) /\ Trigger(r, req)
  \/ \E r \in Requests : DedupQuery(r)
  \/ \E r \in Requests : InsertJob(r)
  \/ \E r \in Requests, host \in LaunchHosts : Launch(r, host)
  \/ \E r \in Requests : Close(r)
  \/ \E j \in JobIds : OnError(j)
  \/ \E j \in JobIds : OnStderrData(j)
  \/ \E j \in JobIds, code \in ExitCodes : OnExit(j, code)
  \/ \E j \in JobIds : OnExitUpdate(j)
  \/ \E j \in JobIds : WorkerReportSuccess(j)

Spec == Init /\ [][Next]_vars

\* The event loop runs the continuation of an awaited query once the query
\* has answered: the second half of the 'exit' handler is not postponed
\* forever.
HandlersComplete == \A j \in JobIds : WF_vars(OnExitUpdate(j))

SpecLive == Init /\ [][Next]_vars /\ HandlersComplete

\* The launch turn is synchronous code that follows the awaited INSERT: it
\* runs once the INSERT has answered, whatever the children do.
LaunchTurnRuns ==
  \A r \in Requests : WF_vars(\E host \in LaunchHosts : Launch(r, host))

SpecRespond == Init /\ [][Next]_vars /\ LaunchTurnRuns

\* the dedup specification: one request, over every list of sessions and
\* every initial storage
InitDedup == InitWith(InitialStorages)

DedupHosts ==
  { Host("unset", FALSE, FALSE, "ok", TRUE, "ok"),
    Host("unset", TRUE, TRUE, "ok", TRUE, "ok"),
    Host("unset", TRUE, TRUE, "ok", TRUE, "ENOENT") }

NextDedup ==
  \/ \E req \in DedupRequests : Trigger(1, req)
  \/ DedupQuery(1)
  \/ InsertJob(1)
  \/ \E host \in DedupHosts : Launch(1, host)
  \/ \E j \in JobIds : WorkerReportSuccess(j)

SpecDedup == InitDedup /\ [][NextDedup]_vars

\* the concurrency specification: two invocations of POST open at the same
\* time, their turns interleaved
ConcRequests ==
  { TriggerRequest("admin-session", NoHeader, Season, Round, <<"Q", "R">>),
    TriggerRequest("none", [scheme |-> "Bearer ", token |-> "secret"], Season, Round, <<"R", "Q">>),
    TriggerRequest("admin-session", NoHeader, Season, Round, <<"Q">>) }

ConcHosts ==
  { Host("unset", TRUE, TRUE, "ok", TRUE, "ok"),
    Host("unset", FALSE, FALSE, "ok", TRUE, "ok") }

NextConc ==
  \/ \E r \in Slots, req \in ConcRequests : SlotFree(r) /\ Trigger(r, req)
  \/ \E r \in Slots : DedupQuery(r)
  \/ \E r \in Slots : InsertJob(r)
  \/ \E r \in Slots, host \in ConcHosts : Launch(r, host)
  \/ \E j \in JobIds : WorkerReportSuccess(j)

SpecConc == Init /\ [][NextConc]_vars

\* the status specification: one invocation of POST at a time, the page that
\* follows it, and status queries interleaved with both
StatusRequests ==
  { TriggerRequest("admin-session", NoHeader, Season, Round, <<"Q", "R">>) }

StatusHosts ==
  { Host("unset", TRUE, TRUE, "ok", TRUE, "ok"),
    Host("unset", TRUE, TRUE, "ok", TRUE, "ENOENT") }

NextStatus ==
  \/ \E req \in StatusRequests : Trigger(1, req)
  \/ DedupQuery(1)
  \/ InsertJob(1)
  \/ \E host \in StatusHosts : Launch(1, host)
  \/ ClientReceive(1)
  \/ Close(2)
  \/ \E j \in JobIds : OnError(j)
  \/ \E j \in JobIds, code \in ExitCodes : OnExit(j, code)
  \/ \E j \in JobIds : OnExitUpdate(j)
  \/ \E j \in JobIds : WorkerReportSuccess(j)
  \/ \E param \in JobIdParams, progressColumn \in BOOLEAN, tieBreak \in TieBreaks :
        StatusQuery(2, param, progressColumn, tieBreak)
  \/ \E progressColumn \in BOOLEAN, elapsed \in ElapsedTimes :
        ClientPoll(progressColumn, elapsed)
  \/ ClientReset

SpecStatus == Init /\ [][NextStatus]_vars

\* the listing specification: a ledger filled by earlier requests, some of
\* them in the same instant, and status queries over it
LedgerInsert(tick) ==
  /\ Len(ingest_jobs) < MaxListed
  /\ ingest_jobs' = Append(ingest_jobs,
                           NewJob(Len(ingest_jobs) + 1, Season, Round, <<"R">>, clock))
  /\ clock' = clock + tick
  /\ UNCHANGED <<sessions, requests, procs, client>>

NextList ==
  \/ \E tick \in {0, 1} : LedgerInsert(tick)
  \/ \E param \in {p \in JobIdParams : NoJobId(p)}, tieBreak \in TieBreaks :
        StatusQuery(2, param, TRUE, tieBreak)
  \/ Close(2)

SpecList == Init /\ [][NextList]_vars

\* the validation specification: requests with and without a season, a
\* round and a credential
ValidateRequests ==
  {TriggerRequest(cookie, authorization, season, round, <<"R">>) :
     cookie \in CookieNames, authorization \in AuthHeaders,
     season \in {0, Season}, round \in {0, Round, OtherRound}}

NextValidate ==
  \/ \E req \in ValidateRequests : Trigger(1, req)
  \/ DedupQuery(1)
  \/ InsertJob(1)
  \/ \E host \in StatusHosts : Launch(1, host)
  \/ Close(1)

SpecValidate == Init /\ [][NextValidate]_vars

\* the resolver specification: the launch turn on every host
NextResolve ==
  \/ \E req \in StatusRequests : Trigger(1, req)
  \/ DedupQuery(1)
  \/ InsertJob(1)
  \/ \E host \in Hosts : Launch(1, host)
  \/ Close(1)

SpecResolve == Init /\ [][NextResolve]_vars

\* the contract specification: the worker exits 0 only after it has reported
\* SUCCESS, every spawned worker exits or fails to start, and every handler
\* and the launch turn run to their end
OnExitHonest(j, code) ==
  /\ code = 0 => procs[j].reported
  /\ OnExit(j, code)

NextContract ==
  \/ \E r \in Requests, req \in TriggerRequests : SlotFree(r) /\ Trigger(r, req)
  \/ \E r \in Requests : DedupQuery(r)
  \/ \E r \in Requests : InsertJob(r)
  \/ \E r \in Requests, host \in LaunchHosts : Launch(r, host)
  \/ \E r \in Requests : Close(r)
  \/ \E j \in JobIds : OnError(j)
  \/ \E j \in JobIds : OnStderrData(j)
  \/ \E j \in JobIds, code \in ExitCodes : OnExitHonest(j, code)
  \/ \E j \in JobIds : OnExitUpdate(j)
  \/ \E j \in JobIds : WorkerReportSuccess(j)

WorkersEnd ==
  \A j \in JobIds : /\ WF_vars(OnError(j))
                     /\ WF_vars(\E code \in ExitCodes : OnExitHonest(j, code))

SpecContract ==
  Init /\ [][NextContract]_vars /\ LaunchTurnRuns /\ WorkersEnd /\ HandlersComplete

\* the polling specification: one load, the ticks of its poll interval with
\* their requests in flight at the same time, and the 10-minute timer
NextPoll ==
  \/ \E req \in StatusRequests : Trigger(1, req)
  \/ DedupQuery(1)
  \/ InsertJob(1)
  \/ \E host \in StatusHosts : Launch(1, host)
  \/ client.inFlight = <<>> /\ ClientReceive(1)
  \/ \E j \in JobIds : OnError(j)
  \/ \E j \in JobIds, code \in ExitCodes : OnExit(j, code)
  \/ \E j \in JobIds : OnExitUpdate(j)
  \/ \E j \in JobIds : WorkerReportSuccess(j)
  \/ ClientTick
  \/ \E i \in 1..MaxInFlight, progressColumn \in BOOLEAN : StatusAnswer(i, progressColumn)
  \/ \E i \in 1..MaxInFlight, elapsed \in ElapsedTimes : ClientPollResponse(i, elapsed)
  \/ ClientPollTimeout
  \/ ClientReset

SpecPoll == Init /\ [][NextPoll]_vars

TypeOK ==
  /\ \A i \in 1..Len(ingest_jobs) : ingest_jobs[i].id = i
  /\ Len(ingest_jobs) <= MaxJobs

\* ----------------------------------------------------------------- claims
Terminal(status) == status \in {"SUCCESS", "FAILED"}
Requested(rq) == SeqToSet(SessionsToIngest(rq))
DedupDone(rq) ==
  rq.pc \in {"insert", "launch"} \/ (rq.pc = "done" /\ rq.status \notin {400, 401})
HasJob(rq) == rq.jobId # JsNull

\* C1: a request whose requested codes were all in storage when the dedup
\* query ran never reaches the insert or the spawn; it is answered with the
\* "already exist" message, the existing sessions and no job id.
C1_AllExistShortCircuits ==
  \A r \in Slots :
    LET rq == requests[r]
    IN (DedupDone(rq) /\ Requested(rq) \subseteq rq.existingSessions)
         => /\ rq.pc = "done"
            /\ rq.status = 200
            /\ rq.message = AlreadyExistsMessage
            /\ rq.jobId = JsNull
            /\ rq.resJobId = JsNull

C1_Witness ==
  \E r \in Slots :
    /\ requests[r].pc = "done"
    /\ requests[r].message = AlreadyExistsMessage
    /\ requests[r].sessions = <<"Q">>
    /\ "Q" \in requests[r].existingSessions

\* C2: a request with at least one missing code gets exactly one ledger row,
\* and the codes stored on that row are exactly the requested codes that were
\* not in storage, whatever the order and the repetitions of the list.
C2_StoredCodes ==
  \A r \in Slots :
    LET rq == requests[r]
    IN (DedupDone(rq) /\ ~(Requested(rq) \subseteq rq.existingSessions))
         => \/ rq.pc = "insert" /\ ~HasJob(rq)
            \/ /\ HasJob(rq)
               /\ rq.jobId.v \in 1..Len(ingest_jobs)
               /\ SplitCodes(ingest_jobs[rq.jobId.v].session_codes)
                    = Requested(rq) \ rq.existingSessions
               /\ ingest_jobs[rq.jobId.v].season = rq.season
               /\ ingest_jobs[rq.jobId.v].round = rq.round

C2_OneRowPerRequest ==
  /\ Len(ingest_jobs') =
       Len(ingest_jobs) + Cardinality({r \in Slots : ~HasJob(requests[r]) /\ HasJob(requests'[r])})
  /\ \A r \in Slots :
       (HasJob(requests[r]) /\ requests'[r].pc # "idle")
          => requests'[r].jobId = requests[r].jobId

C2_ExactlyTheMissingCodes == []C2_StoredCodes /\ [][C2_OneRowPerRequest]_vars

C2_Witness ==
  \E r \in Slots :
    /\ HasJob(requests[r])
    /\ requests[r].sessions = <<"R", "R">>
    /\ requests[r].existingSessions = {"Q"}

\* C3: once a job's status is SUCCESS or FAILED no step changes it.
C3_TerminalStatusIsFinal ==
  [][\A j \in 1..Len(ingest_jobs) :
       Terminal(ingest_jobs[j].status) => ingest_jobs'[j].status = ingest_jobs[j].status]_vars

C3_Witness ==
  \E j \in 1..Len(ingest_jobs) :
    /\ ingest_jobs[j].status = "SUCCESS"
    /\ procs[j].state = "exited"
    /\ procs[j].code # 0
    /\ procs[j].exitH = "done"

\* C4: finished_at is set exactly on the jobs whose status is SUCCESS or FAILED.
C4_FinishedAtIffTerminal ==
  \A j \in 1..Len(ingest_jobs) :
    (ingest_jobs[j].finished_at # NoTime) <=> Terminal(ingest_jobs[j].status)

\* C5: a job has an error exactly when it is FAILED, and then the error is a
\* non-empty string.
C5_ErrorIffFailed ==
  \A j \in 1..Len(ingest_jobs) :
    /\ (ingest_jobs[j].error # NullText) <=> (ingest_jobs[j].status = "FAILED")
    /\ ingest_jobs[j].status = "FAILED" => ingest_jobs[j].error # ""

C5_Witness ==
  \E j \in 1..Len(ingest_jobs) :
    /\ ingest_jobs[j].status = "FAILED"
    /\ procs[j].state = "exited"
    /\ procs[j].exitH = "done"
    /\ ingest_jobs[j].error = "Process exited with code 1. Check logs for details."

\* C6: a job's status is always one of QUEUED, RUNNING, SUCCESS, FAILED (rows
\* are inserted as QUEUED).
C6_StatusInEnum ==
  \A j \in 1..Len(ingest_jobs) :
    ingest_jobs[j].status \in {"QUEUED", "RUNNING", "SUCCESS", "FAILED"}

\* C7: when the launcher answers with a job id after a spawn, it has set
\* started_at and moved the job out of its initial status to RUNNING.
C7_RunningBeforeResponse ==
  \A r \in Slots :
    LET rq == requests[r]
    IN (rq.pc = "done" /\ rq.resJobId # JsNull /\ procs[rq.resJobId.v].state # "none")
         => /\ ingest_jobs[rq.resJobId.v].started_at # NoTime
            /\ ingest_jobs[rq.resJobId.v].status \in {"RUNNING", "SUCCESS", "FAILED"}

\* C8: when the resolver fails for a created job, the job is FAILED with the
\* resolver's message and has no worker process.
C8_ResolverFailureFailsJob ==
  \A r \in Slots :
    LET rq == requests[r]
    IN (rq.pc = "done" /\ HasJob(rq) /\ rq.error = ResolveErrorMessage)
         => /\ ingest_jobs[rq.jobId.v].status = "FAILED"
            /\ ingest_jobs[rq.jobId.v].error = ResolveErrorMessage
            /\ procs[rq.jobId.v].state = "none"

\* C9: a request that created a job is answered normally with that job's id,
\* also when the launch then failed.
C9_JobIdReturnedOnFailure ==
  \A r \in Slots :
    LET rq == requests[r]
    IN (rq.pc = "done" /\ HasJob(rq)) => (rq.status = 200 /\ rq.resJobId = rq.jobId)

\* C10: SUCCESS is written only by the worker's own report, and a worker that
\* exits 0 without reporting leaves its job row as it was inserted.
C10_NoSuccessFromExit ==
  \A j \in 1..Len(ingest_jobs) :
    /\ ingest_jobs[j].status = "SUCCESS" => procs[j].reported
    /\ (procs[j].state = "exited" /\ procs[j].code = 0 /\ ~procs[j].reported)
         => /\ procs[j].exitH = "done"
            /\ ingest_jobs[j].status = InsertStatus
            /\ ingest_jobs[j].error = NullText
            /\ ingest_jobs[j].finished_at = NoTime

C10_SuccessStep ==
  \A j \in 1..Len(ingest_jobs) :
    (ingest_jobs[j].status # "SUCCESS" /\ ingest_jobs'[j].status = "SUCCESS")
       => (~procs[j].reported /\ procs'[j].reported)

C10_LauncherNeverWritesSuccess == []C10_NoSuccessFromExit /\ [][C10_SuccessStep]_vars

C10_Witness ==
  \E j \in 1..Len(ingest_jobs) :
    /\ procs[j].state = "exited"
    /\ procs[j].code = 0
    /\ ~procs[j].reported
    /\ procs[j].exitH = "done"
    /\ ingest_jobs[j].status = InsertStatus

\* C11: when a spawned child has exited with a non-zero code and its job was
\* still PENDING or RUNNING at that moment, the job eventually is FAILED with
\* a non-empty error.
C11_ExitedNonZero(j) ==
  /\ procs[j].state = "exited"
  /\ procs[j].code # 0
  /\ procs[j].exitH = "selected"
  /\ ~Terminal(procs[j].seen)

C11_FailedWithError(j) ==
  /\ j \in 1..Len(ingest_jobs)
  /\ ingest_jobs[j].status = "FAILED"
  /\ ingest_jobs[j].error \notin {NullText, ""}

C11_NonZeroExitEventuallyFails ==
  \A j \in JobIds : C11_ExitedNonZero(j) ~> C11_FailedWithError(j)

C11_Witness ==
  \E j \in 1..Len(ingest_jobs) :
    /\ procs[j].state = "exited"
    /\ procs[j].code = 1
    /\ procs[j].exitH = "done"
    /\ ~procs[j].reported
    /\ ingest_jobs[j].status = "FAILED"
    /\ ingest_jobs[j].error = "Process exited with code 1. Traceback;"

\* C12: once the 'error' handler of a child that could not be created has
\* run, the job is FAILED with an error that contains the spawn error's
\* message, in that state and in every later one.
C12_SpawnErrorFailsJob ==
  \A j \in JobIds :
    (procs[j].state = "spawn_failed" /\ procs[j].errorH = "done")
       => /\ j \in 1..Len(ingest_jobs)
          /\ ingest_jobs[j].status = "FAILED"
          /\ \E prefix \in {"", "Process spawn error: "} :
               ingest_jobs[j].error = prefix \o SpawnErrorMessage

C12_Witness ==
  \E j \in 1..Len(ingest_jobs), r \in Slots :
    /\ procs[j].state = "spawn_failed"
    /\ procs[j].errorH = "done"
    /\ ingest_jobs[j].status = "FAILED"
    /\ requests[r].pc = "done"
    /\ requests[r].resJobId = PgParse(IdColumnType, j)

\* C13: a job gets at most one worker process, and only from the launch turn
\* of the request that inserted it: a process is created only for a job that
\* never had one, by a request that holds that job and ends its launch turn
\* without an error; a request enters its launch turn only with the row it
\* has just inserted; and a process that failed to start or has exited is
\* never started again.
C13_Spawned(j) == procs[j].state = "none" /\ procs'[j].state # "none"

C13_SpawnOnlyByOwnLaunch ==
  /\ \A r \in Slots :
       (requests[r].pc = "launch" /\ requests'[r].pc = "done" /\ requests'[r].error = "")
          => C13_Spawned(requests[r].jobId.v)
  /\ \A j \in JobIds :
       C13_Spawned(j) =>
         \E r \in Slots : /\ requests[r].pc = "launch"
                          /\ requests[r].jobId.v = j
                          /\ requests'[r].pc = "done"
                          /\ requests'[r].error = ""

C13_LaunchOnlyAfterOwnInsert ==
  \A r \in Slots :
    (requests[r].pc # "launch" /\ requests'[r].pc = "launch")
       => /\ Len(ingest_jobs') = Len(ingest_jobs) + 1
          /\ requests'[r].jobId.v = Len(ingest_jobs')
          /\ procs[requests'[r].jobId.v].state = "none"

C13_NoRestart ==
  \A j \in JobIds :
    /\ procs[j].state = "spawn_failed" => procs'[j].state = "spawn_failed"
    /\ procs[j].state = "exited" => procs'[j].state = "exited"
    /\ procs[j].state = "running" => procs'[j].state \in {"running", "exited"}

C13_NoAutomaticRetry ==
  [][C13_SpawnOnlyByOwnLaunch /\ C13_LaunchOnlyAfterOwnInsert /\ C13_NoRestart]_vars

\* a second job is launched after the first one's worker exited non-zero
C13_Witness ==
  /\ Len(ingest_jobs) = 2
  /\ procs[1].state = "exited"
  /\ procs[1].code # 0
  /\ ingest_jobs[1].status = "FAILED"
  /\ procs[2].state = "running"

\* C14: two open requests for the same weekend and the same set of codes,
\* whose dedup queries both ran before any worker reported, have observed the
\* same stored codes and the same missing codes; neither is answered as
\* "already exist" because of the other's job; the rows they insert have
\* distinct ids and carry the same codes; and each that launched has its own
\* worker, started with its own job id.
C14_SameTarget(a, b) ==
  /\ a.season = b.season
  /\ a.round = b.round
  /\ Requested(a) = Requested(b)
  /\ DedupDone(a)
  /\ DedupDone(b)

C14_Launched(rq) == rq.pc = "done" /\ rq.status = 200 /\ rq.resJobId # JsNull

C14_ConcurrentRequestsDuplicate ==
  \A r1, r2 \in Slots :
    LET a == requests[r1]
        b == requests[r2]
    IN (r1 # r2 /\ C14_SameTarget(a, b))
         => /\ (\A j \in JobIds : ~procs[j].reported)
                 => /\ a.existingSessions = b.existingSessions
                    /\ SeqToSet(a.newSessions) = SeqToSet(b.newSessions)
                    /\ SeqToSet(a.newSessions) # {} => a.message # AlreadyExistsMessage
            /\ (HasJob(a) /\ HasJob(b))
                 => /\ a.jobId # b.jobId
                    /\ ingest_jobs[a.jobId.v].id # ingest_jobs[b.jobId.v].id
                    /\ SplitCodes(ingest_jobs[a.jobId.v].session_codes) = SeqToSet(a.newSessions)
            /\ (C14_Launched(a) /\ C14_Launched(b))
                 => /\ procs[a.jobId.v].state # "none"
                    /\ procs[b.jobId.v].state # "none"
                    /\ procs[a.jobId.v].env.JOB_ID = a.jobId.v
                    /\ procs[b.jobId.v].env.JOB_ID = b.jobId.v

C14_Witness ==
  /\ C14_Launched(requests[1])
  /\ C14_Launched(requests[2])
  /\ requests[1].sessions = <<"Q", "R">>
  /\ requests[2].sessions = <<"R", "Q">>
  /\ requests[1].existingSessions = {"Q"}
  /\ requests[2].existingSessions = {"Q"}
  /\ requests[1].jobId # requests[2].jobId
  /\ ingest_jobs[1].session_codes = ingest_jobs[2].session_codes
  /\ procs[1].state = "running"
  /\ procs[2].state = "running"

\* C15: a status query that names a job (any jobId text other than none)
\* matching no ledger row is answered with the not-found result: status 404,
\* the "Job not found" error and no job in the body.
C15_MatchesRow(param) ==
  \E i \in 1..Len(ingest_jobs) : param.kind = "int" /\ ingest_jobs[i].id = param.v

C15_UnknownJobIsNotFound ==
  \A r \in Slots :
    LET rq == requests[r]
    IN (rq.pc = "done" /\ rq.query # NoQuery /\ ~NoJobId(rq.query)
          /\ ~C15_MatchesRow(rq.query))
         => /\ rq.status = 404
            /\ rq.error = NotFoundMessage
            /\ rq.rows = <<>>

\* C16: a status query without a jobId is answered with the jobs created
\* last: as many as the ledger holds up to ten, each a ledger row and none
\* twice, ordered by created_at descending, and no row left out was created
\* after a row that is listed.
C16_ListStep(r) ==
  /\ requests[r].pc = "idle"
  /\ requests'[r].pc = "done"
  /\ requests'[r].query # NoQuery
  /\ NoJobId(requests'[r].query)

C16_MostRecent(rows, jobs) ==
  /\ Len(rows) = (IF Len(jobs) < ListLimit THEN Len(jobs) ELSE ListLimit)
  /\ \A i \in 1..Len(rows) : \E j \in 1..Len(jobs) : rows[i] = jobs[j]
  /\ \A i, k \in 1..Len(rows) :
       i < k => (rows[i].created_at >= rows[k].created_at /\ rows[i].id # rows[k].id)
  /\ \A j \in 1..Len(jobs) :
       (\A i \in 1..Len(rows) : rows[i].id # jobs[j].id)
          => \A i \in 1..Len(rows) : jobs[j].created_at <= rows[i].created_at

C16_RecentJobsListed ==
  [][\A r \in Slots :
       C16_ListStep(r) => /\ requests'[r].status = 200
                          /\ C16_MostRecent(requests'[r].rows, ingest_jobs)]_vars

\* more jobs than the limit, the two oldest created in the same instant
C16_Witness ==
  /\ requests[2].pc = "done"
  /\ requests[2].query = JobIdParam("absent", 0)
  /\ Len(ingest_jobs) > ListLimit
  /\ ingest_jobs[1].created_at = ingest_jobs[2].created_at
  /\ Len(requests[2].rows) = ListLimit
  /\ requests[2].rows[1].id = Len(ingest_jobs)
  /\ requests[2].rows[ListLimit].id = 2

\* C17: a step in which a status query is answered, or in which the page
\* takes in a status answer and changes what it shows, leaves the ledger and
\* the stored sessions as they were.
C17_StatusStep ==
  \/ \E r \in Slots : /\ requests[r].pc = "idle"
                       /\ requests'[r].pc = "done"
                       /\ requests'[r].query # NoQuery
  \/ client.polling /\ client' # client

C18_Unauthenticated(rq) ==
  /\ rq.cookie # IssuedCookieName
  /\ ~IsAuthenticated(rq.authorization)

C18_TriggerRequiresAuthentication ==
  \A r \in Slots :
    LET rq == requests[r]
    IN (rq.pc # "idle" /\ rq.query = NoQuery /\ C18_Unauthenticated(rq))
         => /\ rq.pc = "done"
            /\ rq.status \in {400, 401}
            /\ ~HasJob(rq)

C20_WorkerEnvironment ==
  \A j \in JobIds :
    procs[j].state # "none"
      => /\ j \in 1..Len(ingest_jobs)
         /\ procs[j].env.JOB_ID = ingest_jobs[j].id
         /\ procs[j].env.SEASON = ingest_jobs[j].season
         /\ procs[j].env.ROUND = ingest_jobs[j].round
         /\ procs[j].env.SESSION_CODES = ingest_jobs[j].session_codes
         /\ procs[j].env.DATABASE_URL = "ok"
         /\ procs[j].args = WorkerArgs

C20_Witness ==
  /\ Len(ingest_jobs) = 2
  /\ procs[1].state = "spawn_failed"
  /\ procs[2].state = "running"
  /\ procs[2].env.JOB_ID = 2
  /\ procs[2].env.SESSION_CODES = <<"R">>
  /\ ingest_jobs[2].session_codes = <<"R">>

\* C21: the step that spawns a job's child is the step that answers the
\* request with that job's id, the child still running or waiting to report
\* its spawn error; a child event (exit, spawn error) is handled only once no
\* request is in its launch turn for that job; and a request in its launch
\* turn is always answered, also when no child ever exits.
C21_RespondsAtSpawn ==
  \A j \in JobIds :
    (procs[j].state = "none" /\ procs'[j].state # "none")
       => /\ procs'[j].state \in {"running", "spawn_failed"}
          /\ procs'[j].exitH = "none"
          /\ procs'[j].errorH \in {"none", "pending"}
          /\ \E r \in Slots : /\ requests[r].pc = "launch"
                               /\ requests'[r].pc = "done"
                               /\ requests'[r].status = 200
                               /\ requests'[r].resJobId = PgParse(IdColumnType, j)

C21_ChildEventsAfterResponse ==
  \A j \in JobIds :
    (procs[j].state # "none" /\ procs'[j] # procs[j])
       => ~\E r \in Slots : requests[r].pc = "launch" /\ requests[r].jobId.v = j

C21_LaunchAnswered ==
  \A r \in Requests : (requests[r].pc = "launch") ~> (requests[r].pc = "done")

C21_FireAndForget ==
  /\ [][C21_RespondsAtSpawn /\ C21_ChildEventsAfterResponse]_vars
  /\ C21_LaunchAnswered

\* the request is answered and closed while the child runs on
C21_Witness ==
  /\ Len(ingest_jobs) = 1
  /\ procs[1].state = "running"
  /\ procs[1].exitH = "none"
  /\ ~procs[1].reported
  /\ requests[1].pc = "idle"

\* C22: the resolver returns the override when it is set and on disk;
\* otherwise (override unset, or set but not on disk) the bundled
\* environment's interpreter when it exists; otherwise the system interpreter
\* when its probe runs; and the launch fails with the resolver's message
\* exactly when none of the three is there.
C22_Resolved(rq) == rq.host # NoHost

C23_ReportedIsSuccess ==
  \A j \in JobIds :
    procs[j].reported => (j \in 1..Len(ingest_jobs) /\ ingest_jobs[j].status = "SUCCESS")

C23_PageShowsHundred ==
  client.ingestStatus = "Data loaded successfully!"
    => /\ client.ingestJobId.v \in 1..Len(ingest_jobs)
       /\ ingest_jobs[client.ingestJobId.v].status = "SUCCESS"
       /\ SeqToSet(client.sessions)
            = SplitCodes(ingest_jobs[client.ingestJobId.v].session_codes)
       /\ Len(client.sessionProgress) = Len(client.sessions)
       /\ \A i \in 1..Len(client.sessionProgress) : client.sessionProgress[i] = 100

C23_SuccessShownAsComplete == C23_ReportedIsSuccess /\ C23_PageShowsHundred

\* the worker reported, exited non-zero all the same, and the page has seen
\* the SUCCESS
C23_Witness ==
  /\ procs[1].reported
  /\ procs[1].state = "exited"
  /\ procs[1].code # 0
  /\ procs[1].exitH = "done"
  /\ client.ingestStatus = "Data loaded successfully!"
  /\ client.sessionProgress = <<100>>

\* C24: no step removes a ledger row or changes a row's id, season, round,
\* codes or created_at; a step changes at most one existing row; and the row
\* a launcher handler changes is the row of the job whose child the handler
\* belongs to.
C24_RowChanged(i) == ingest_jobs'[i] # ingest_jobs[i]

C24_SingleRowUpdates ==
  /\ Len(ingest_jobs') >= Len(ingest_jobs)
  /\ \A i \in 1..Len(ingest_jobs) :
       /\ ingest_jobs'[i].id = ingest_jobs[i].id
       /\ ingest_jobs'[i].season = ingest_jobs[i].season
       /\ ingest_jobs'[i].round = ingest_jobs[i].round
       /\ ingest_jobs'[i].session_codes = ingest_jobs[i].session_codes
       /\ ingest_jobs'[i].created_at = ingest_jobs[i].created_at
       /\ C24_RowChanged(i)
            => /\ procs'[i] # procs[i]
               /\ procs[i].env.JOB_ID = ingest_jobs[i].id
               /\ \A k \in 1..Len(ingest_jobs) : k # i => ~C24_RowChanged(k)

C24_LauncherUpdatesOwnRow == [][C24_SingleRowUpdates]_vars

\* the second job failed by its exit handler while the first is untouched
C24_Witness ==
  /\ Len(ingest_jobs) = 2
  /\ procs[1].state = "running"
  /\ ingest_jobs[1].status = InsertStatus
  /\ ingest_jobs[1].error = NullText
  /\ procs[2].exitH = "done"
  /\ procs[2].code # 0
  /\ ingest_jobs[2].status = "FAILED"

\* C25: when the launch turn of a created job fails on the connection string
\* or on the worker script, the job is FAILED with that error once the
\* request is answered, and it has no worker process.
C25_ConfigurationErrors ==
  {"DATABASE_URL is not properly configured", "Ingest script not found"}

C25_ConfigurationErrorFailsJob ==
  \A r \in Slots :
    LET rq == requests[r]
    IN (rq.pc = "done" /\ HasJob(rq) /\ rq.error \in C25_ConfigurationErrors)
         => /\ procs[rq.jobId.v].state = "none"
            /\ ingest_jobs[rq.jobId.v].status = "FAILED"
            /\ ingest_jobs[rq.jobId.v].error = rq.error

\* C26: a trigger request that carries the session cookie the admin login
\* issues, and no Authorization header, is not answered 401.
C26_LoginCookieAccepted ==
  \A r \in Slots :
    LET rq == requests[r]
    IN (rq.pc # "idle" /\ rq.query = NoQuery
          /\ rq.cookie = IssuedCookieName /\ rq.authorization = NoHeader)
         => rq.status # 401

\* C27: with a worker that honours its contract and always ends, every job
\* in the ledger eventually is SUCCESS or FAILED.
C27_EveryJobTerminates ==
  \A j \in JobIds :
    (j \in 1..Len(ingest_jobs))
       ~> (j \in 1..Len(ingest_jobs) /\ Terminal(ingest_jobs[j].status))

\* the same for the jobs that have a child process
C27_SpawnedJobTerminates ==
  \A j \in JobIds :
    (procs[j].state # "none")
       ~> (j \in 1..Len(ingest_jobs) /\ Terminal(ingest_jobs[j].status))

\* C28: once a job is FAILED, every later step leaves it FAILED with the
\* error it has: the exit handler's update, a step apart from its status
\* read, and the spawn-error handler's update never replace a recorded error.
C28_ErrorKept ==
  \A j \in 1..Len(ingest_jobs) :
    ingest_jobs[j].status = "FAILED"
      => /\ ingest_jobs'[j].status = "FAILED"
         /\ ingest_jobs'[j].error = ingest_jobs[j].error

C28_FirstErrorRemains == [][C28_ErrorKept]_vars

\* one job failed by its spawn-error handler, another by its exit handler,
\* each with its own error
C28_Witness ==
  /\ Len(ingest_jobs) = 2
  /\ procs[1].state = "spawn_failed"
  /\ procs[1].errorH = "done"
  /\ procs[2].state = "exited"
  /\ procs[2].exitH = "done"
  /\ ingest_jobs[1].error = SpawnErrorText(SpawnErrorMessage)
  /\ ingest_jobs[2].error = ExitErrorMessage(1, StderrChunk)

\* C29: while the page's 'ingesting' flag is set, what resets it is still to
\* come: the poll interval is live, an answer of a status request is on its
\* way, or a reset timer is pending; so the flag is reset in every outcome,
\* the 10-minute end of polling included.
C29_IngestingIsReset ==
  client.ingesting
    => \/ client.polling
       \/ client.inFlight # <<>>
       \/ client.resetTimer

\* C30: the terminal-status handling of a load (clearInterval and the reset
\* timer) runs at most once, whatever the order in which the answers of
\* status requests in flight at the same time arrive.
C30_TerminalHandledOnce == client.terminalHandled <= 1

====
